---- MODULE Spec2Model ----
(***************************************************************************)
(* Model of sql_parser.py (WanderMotta/Reconstrutor-Query): extraction of  *)
(* the WHERE conditions of a SQL statement (parse_sql_query,               *)
(* extract_conditions, parse_condition, detect_value_type) and their       *)
(* re-serialisation (reconstruct_sql_query, construct_where_clause,        *)
(* format_value), plus the parse_query route of app.py that reports the    *)
(* outcome.  SQL text is modelled as TLA+ strings, character by character; *)
(* the regular expressions of the source are transcribed as item lists     *)
(* and run by a matcher that keeps Python's priority order.                *)
(***************************************************************************)
EXTENDS Integers, Sequences, FiniteSets, TLC

VARIABLES
    pc,        \* "start", then "parsed", "rebuilt" or "raised" (a statement), "typed", "once", "twice"
               \* (a value typed and formatted), "formatted", "format_raised" (a value formatted
               \* under a declared type) or "matched" (a fragment handed to parse_condition)
    shape,     \* how the statement was written: its fragments, connective and trailing clause
    query,     \* the SQL statement handed to parse_sql_query / reconstruct_sql_query, or the
               \* fragment handed to parse_condition
    conds,     \* the list returned by parse_sql_query; the condition parse_condition returned, if any
    status,    \* the status the parse_query route reports
    edited,    \* the condition list handed to reconstruct_sql_query
    result,    \* the value reconstruct_sql_query returns
    path,      \* the branch of reconstruct_sql_query that returned it
    val,       \* a scalar handed to detect_value_type / format_value
    vtype,     \* the declared type handed to format_value
    fmt1,      \* format_value's result on val
    fmt2,      \* format_value's result on its own output, re-typed
    given      \* the value handed to format_value together with a declared type

vars == <<pc, shape, query, conds, status, edited, result, path, val, vtype, fmt1, fmt2, given>>

----------------------------------------------------------------------------
(* Strings                                                                 *)

Ch(s, i) == SubSeq(s, i, i)

IsSpace(c) == c \in {" ", "\n", "\t"}

IsDigit(c) == c \in {"0", "1", "2", "3", "4", "5", "6", "7", "8", "9"}

ToUpper ==
    [a |-> "A", b |-> "B", c |-> "C", d |-> "D", e |-> "E", f |-> "F", g |-> "G",
     h |-> "H", i |-> "I", j |-> "J", k |-> "K", l |-> "L", m |-> "M", n |-> "N",
     o |-> "O", p |-> "P", q |-> "Q", r |-> "R", s |-> "S", t |-> "T", u |-> "U",
     v |-> "V", w |-> "W", x |-> "X", y |-> "Y", z |-> "Z"]

ToLower ==
    [A |-> "a", B |-> "b", C |-> "c", D |-> "d", E |-> "e", F |-> "f", G |-> "g",
     H |-> "h", I |-> "i", J |-> "j", K |-> "k", L |-> "l", M |-> "m", N |-> "n",
     O |-> "o", P |-> "p", Q |-> "q", R |-> "r", S |-> "s", T |-> "t", U |-> "u",
     V |-> "v", W |-> "w", X |-> "x", Y |-> "y", Z |-> "z"]

UpperCh(c) == IF c \in DOMAIN ToUpper THEN ToUpper[c] ELSE c

RECURSIVE Upper(_)
Upper(s) == IF s = "" THEN "" ELSE UpperCh(Head(s)) \o Upper(Tail(s))

LowerCh(c) == IF c \in DOMAIN ToLower THEN ToLower[c] ELSE c

MinOf(S) == CHOOSE x \in S : \A y \in S : x <= y
MaxOf(S) == 0 - MinOf({0 - x : x \in S})

\* str.startswith / the substring test `sub in s` / s.find(sub, from)
StartsWithAt(s, i, sub) ==
    /\ i + Len(sub) - 1 <= Len(s)
    /\ SubSeq(s, i, i + Len(sub) - 1) = sub

\* the least member of a set of positions, or none when the set is empty
FirstOf(at, none) == IF at = {} THEN none ELSE MinOf(at)

\* the first position at or after i where sub stands in s, or 0
FindFrom(s, sub, i) ==
    LET At(j) == IF j > Len(s) - Len(sub) + 1 THEN 0 ELSE j
    IN  At(CHOOSE j \in i..MaxOf({i, Len(s) - Len(sub) + 2}) :
               /\ j > Len(s) - Len(sub) + 1 \/ StartsWithAt(s, j, sub)
               /\ \A k \in i..(j - 1) : ~StartsWithAt(s, k, sub))

\* the same, letter case ignored
FindFromNoCase(s, sub, i) ==
    FirstOf({j \in i..(Len(s) - Len(sub) + 1) :
                Upper(SubSeq(s, j, j + Len(sub) - 1)) = Upper(sub)}, 0)

Contains(s, sub) == FindFrom(s, sub, 1) > 0

\* str.strip(chars): drop the leading and trailing characters that are in chars
Kept(s, cs) == {i \in 1..Len(s) : Ch(s, i) \notin cs}

LStripSet(s, cs) == SubSeq(s, FirstOf(Kept(s, cs), Len(s) + 1), Len(s))

RStripSet(s, cs) == SubSeq(s, 1, IF Kept(s, cs) = {} THEN 0 ELSE MaxOf(Kept(s, cs)))

StripSet(s, cs) == RStripSet(LStripSet(s, cs), cs)

Strip(s) == StripSet(s, {" ", "\n", "\t"})

StripQuotes(s) == StripSet(s, {"'", "\""})

\* str.replace(old, new), all non-overlapping occurrences from the left
RECURSIVE Replace(_, _, _)
Replace(s, old, new) ==
    LET From(i) ==
            IF old = "" \/ i = 0 THEN s
            ELSE SubSeq(s, 1, i - 1) \o new \o Replace(SubSeq(s, i + Len(old), Len(s)), old, new)
    IN  From(FindFrom(s, old, 1))

\* str.split(sep)
RECURSIVE Split(_, _)
Split(s, sep) ==
    LET From(i) ==
            IF i = 0 THEN <<s>>
            ELSE <<SubSeq(s, 1, i - 1)>> \o Split(SubSeq(s, i + Len(sep), Len(s)), sep)
    IN  From(FindFrom(s, sep, 1))

\* sep.join(parts)
RECURSIVE Join(_, _)
Join(parts, sep) ==
    IF parts = <<>> THEN ""
    ELSE IF Len(parts) = 1 THEN parts[1]
    ELSE parts[1] \o sep \o Join(Tail(parts), sep)

----------------------------------------------------------------------------
(* Regular expressions: a pattern is a sequence of items.  Every way of     *)
(* matching is followed at once, each carrying the ranks of the choices it *)
(* took, ranked in the order Python's re tries them (greedy repetitions    *)
(* longest first, lazy ones shortest first, alternatives left to right);   *)
(* the match with the least ranks is the match re reports.                 *)

Lit(s) == [t |-> "lit", s |-> s]
One(cls) == [t |-> "one", cls |-> cls]
Rep(cls, min, greedy) == [t |-> "rep", cls |-> cls, min |-> min, greedy |-> greedy]
Opt(sub) == [t |-> "opt", sub |-> sub]
Alt(alts) == [t |-> "alt", alts |-> alts]
Open(g) == [t |-> "open", g |-> g]
Close(g) == [t |-> "close", g |-> g]
EndAnchor == [t |-> "end"]

\* the character classes the source's patterns use
InClass(c, cls) ==
    CASE cls = "space" -> IsSpace(c)                    \* \s
      [] cls = "nonspace" -> ~IsSpace(c)                \* [^\s]
      [] cls = "dot" -> c # "\n"                        \* .  without re.DOTALL
      [] cls = "any" -> TRUE                            \* .  with re.DOTALL
      [] cls = "notcommaparen" -> c \notin {",", ")"}   \* [^,\)]
      [] cls = "notquote" -> c # "'"                    \* [^\']
      [] cls = "digit" -> IsDigit(c)                    \* \d
      [] cls = "d01" -> c \in {"0", "1"}                 \* [0-1]
      [] cls = "d02" -> c \in {"0", "1", "2"}            \* [0-2]
      [] cls = "d03" -> c \in {"0", "1", "2", "3"}       \* [0-3]
      [] cls = "d05" -> c \in {"0", "1", "2", "3", "4", "5"}   \* [0-5]
      [] cls = "d12" -> c \in {"1", "2"}                 \* [1-2]
      [] cls = "d19" -> IsDigit(c) /\ c # "0"           \* [1-9]
      [] OTHER -> FALSE

\* the length of the longest run of characters of the class from position i
RunLen(s, i, cls) ==
    (CHOOSE j \in i..(Len(s) + 1) :
        /\ j = Len(s) + 1 \/ ~InClass(Ch(s, j), cls)
        /\ \A k \in i..(j - 1) : InClass(Ch(s, k), cls)) - i

NoMatch == [ok |-> FALSE, start |-> 0, end |-> 0, caps |-> <<>>]

NoCaps == [g \in 1..5 |-> <<0, 0>>]

LitAt(s, i, lit, ic) ==
    /\ i + Len(lit) - 1 <= Len(s)
    /\ IF ic THEN Upper(SubSeq(s, i, i + Len(lit) - 1)) = Upper(lit)
             ELSE SubSeq(s, i, i + Len(lit) - 1) = lit

\* a cheap necessary condition for items to match at position j: what the
\* first consuming item demands of the character standing there
RECURSIVE CanStart(_, _, _, _)
CanStart(items, s, j, ic) ==
    IF items = <<>> THEN TRUE
    ELSE LET it == Head(items)
         IN  CASE it.t \in {"open", "close"} -> CanStart(Tail(items), s, j, ic)
               [] it.t = "lit" -> LitAt(s, j, it.s, ic)
               [] it.t = "one" -> j <= Len(s) /\ InClass(Ch(s, j), it.cls)
               [] it.t = "rep" -> it.min = 0 \/ (j <= Len(s) /\ InClass(Ch(s, j), it.cls))
               [] it.t = "end" -> j = Len(s) + 1 \/ (j = Len(s) /\ Ch(s, j) = "\n")
               [] OTHER -> TRUE

\* A way of matching a prefix of the pattern is a thread: the position i it
\* has reached, the groups it has captured, and its key, the rank of the
\* alternative it took at each choice in the order re would try them.  The
\* thread re's backtracking finds first is the one with the least key.
Choose(th, i, rank) == [th EXCEPT !.i = i, !.key = th.key \o <<rank>>]

KeyBefore(a, b) ==
    \E k \in 1..MinOf({Len(a), Len(b)}) :
        /\ a[k] < b[k]
        /\ \A j \in 1..(k - 1) : a[j] = b[j]

RECURSIVE Run(_, _, _, _)

\* the threads one thread becomes by matching the item it, rest being the
\* items after it
Step(it, rest, s, ic, th) ==
    CASE it.t = "lit" ->
           IF LitAt(s, th.i, it.s, ic) THEN {[th EXCEPT !.i = th.i + Len(it.s)]} ELSE {}
      [] it.t = "one" ->
           IF th.i <= Len(s) /\ InClass(Ch(s, th.i), it.cls)
           THEN {[th EXCEPT !.i = th.i + 1]} ELSE {}
      [] it.t = "rep" ->
           {Choose(th, th.i + n, IF it.greedy THEN Len(s) - n ELSE n) :
               n \in {n \in it.min..RunLen(s, th.i, it.cls) : CanStart(rest, s, th.i + n, ic)}}
      [] it.t = "opt" -> Run(it.sub, s, ic, {Choose(th, th.i, 0)}) \cup {Choose(th, th.i, 1)}
      [] it.t = "alt" ->
           UNION {Run(it.alts[k], s, ic, {Choose(th, th.i, k)}) : k \in 1..Len(it.alts)}
      [] it.t = "open" -> {[th EXCEPT !.caps[it.g] = <<th.i, th.i>>]}
      [] it.t = "close" -> {[th EXCEPT !.caps[it.g] = <<th.caps[it.g][1], th.i>>]}
      [] it.t = "end" ->
           IF th.i = Len(s) + 1 \/ (th.i = Len(s) /\ Ch(s, th.i) = "\n") THEN {th} ELSE {}

\* the threads that have matched all the items
Run(items, s, ic, threads) ==
    IF items = <<>> \/ threads = {} THEN threads
    ELSE Run(Tail(items), s, ic,
             UNION {Step(Head(items), Tail(items), s, ic, th) : th \in threads})

\* the match re reports among the threads that matched the whole pattern
FirstMatch(done) ==
    IF done = {} THEN NoMatch
    ELSE LET Found(th) == [ok |-> TRUE, start |-> 0, end |-> th.i, caps |-> th.caps]
         IN  Found(CHOOSE th \in done : \A other \in done \ {th} : KeyBefore(th.key, other.key))

MatchAt(items, s, i, caps, ic) ==
    FirstMatch(Run(items, s, ic, {[i |-> i, caps |-> caps, key |-> <<>>]}))

StartingAt(r, i) == IF r.ok THEN [r EXCEPT !.start = i] ELSE NoMatch

ReMatch(items, s, ic) == StartingAt(MatchAt(items, s, 1, NoCaps, ic), 1)

\* re.search(pattern, s): the leftmost position where the pattern matches
SearchFrom(items, s, ic, first) ==
    IF first > Len(s) + 1 THEN NoMatch
    ELSE StartingAt(MatchAt(items, s, first, NoCaps, ic), first)

ReSearch(items, s, ic) ==
    SearchFrom(items, s, ic,
               CHOOSE i \in 1..(Len(s) + 2) :
                   \/ i = Len(s) + 2
                   \/ CanStart(items, s, i, ic) /\ MatchAt(items, s, i, NoCaps, ic).ok)

\* m.group(g), and m.group(0)
Group(s, m, g) == SubSeq(s, m.caps[g][1], m.caps[g][2] - 1)

Group0(s, m) == SubSeq(s, m.start, m.end - 1)

\* re.split(pattern, s): the pieces between the successive matches
RECURSIVE ReSplit(_, _, _)
ReSplit(items, s, ic) ==
    LET Pieces(m) ==
            IF ~m.ok THEN <<s>>
            ELSE <<SubSeq(s, 1, m.start - 1)>> \o ReSplit(items, SubSeq(s, m.end, Len(s)), ic)
    IN  Pieces(ReSearch(items, s, ic))

----------------------------------------------------------------------------
(* Python values.  A value of a condition is None, a string, a number (as  *)
(* JSON delivers it, kept by its decimal text) or a list of scalars.       *)

PyNone == [k |-> "none", s |-> "", items |-> <<>>]
PyStr(s) == [k |-> "str", s |-> s, items |-> <<>>]
PyInt(digits) == [k |-> "int", s |-> digits, items |-> <<>>]
PyList(items) == [k |-> "list", s |-> "", items |-> items]

StrList(strs) == PyList([i \in 1..Len(strs) |-> PyStr(strs[i])])

\* repr(s) of a string: single quotes, double quotes when s holds a single
\* quote and no double quote, else single quotes with the quote escaped
PyRepr(s) ==
    IF ~Contains(s, "'") THEN "'" \o s \o "'"
    ELSE IF ~Contains(s, "\"") THEN "\"" \o s \o "\""
    ELSE "'" \o Replace(s, "'", "\\'") \o "'"

PyScalarRepr(v) ==
    IF v.k = "none" THEN "None" ELSE IF v.k = "int" THEN v.s ELSE PyRepr(v.s)

RECURSIVE ReprItems(_)
ReprItems(items) ==
    IF items = <<>> THEN <<>> ELSE <<PyScalarRepr(Head(items))>> \o ReprItems(Tail(items))

\* str(v) / f"{v}"
PyText(v) ==
    CASE v.k = "none" -> "None"
      [] v.k = "list" -> "[" \o Join(ReprItems(v.items), ", ") \o "]"
      [] OTHER -> v.s

----------------------------------------------------------------------------
(* detect_value_type                                                       *)

\* digits, single underscores allowed between them
AllDigits(s) ==
    /\ s # ""
    /\ IsDigit(Ch(s, 1)) /\ IsDigit(Ch(s, Len(s)))
    /\ \A i \in 1..Len(s) :
           \/ IsDigit(Ch(s, i))
           \/ Ch(s, i) = "_" /\ IsDigit(Ch(s, i - 1)) /\ IsDigit(Ch(s, i + 1))

\* digits [ . [digits] ]  or  . digits
IsDecimal(m) ==
    LET Parts(a, b) ==
            /\ a = "" \/ AllDigits(a)
            /\ b = "" \/ AllDigits(b)
            /\ ~(a = "" /\ b = "")
        AtDot(dot) ==
            IF dot = 0 THEN AllDigits(m)
            ELSE Parts(SubSeq(m, 1, dot - 1), SubSeq(m, dot + 1, Len(m)))
    IN  AtDot(FindFrom(m, ".", 1))

IsExponent(x) ==
    AllDigits(IF x # "" /\ Head(x) \in {"+", "-"} THEN Tail(x) ELSE x)

\* float(value) succeeds: surrounding whitespace, a sign, then inf / infinity /
\* nan or a decimal literal with an optional exponent.  (Digit-group
\* underscores, which float() also accepts, are not written here: no value of
\* the model contains "_" between digits.)
IsFloat(value) ==
    LET Unsigned(t) == IF t # "" /\ Head(t) \in {"+", "-"} THEN Tail(t) ELSE t
        Mantissa(u, e) ==
            IF e = 0 THEN IsDecimal(u)
            ELSE IsDecimal(SubSeq(u, 1, e - 1)) /\ IsExponent(SubSeq(u, e + 1, Len(u)))
        Literal(u, up) ==
            IF up \in {"INF", "INFINITY", "NAN"} THEN TRUE
            ELSE Mantissa(u, FindFrom(up, "E", 1))
        Number(u) == Literal(u, Upper(u))
    IN  Number(Unsigned(Strip(value)))

RECURSIVE ToInt(_)
DigitVal(c) ==
    CASE c = "0" -> 0 [] c = "1" -> 1 [] c = "2" -> 2 [] c = "3" -> 3 [] c = "4" -> 4
      [] c = "5" -> 5 [] c = "6" -> 6 [] c = "7" -> 7 [] c = "8" -> 8 [] c = "9" -> 9
      [] OTHER -> 0
ToInt(s) == IF s = "" THEN 0 ELSE 10 * ToInt(SubSeq(s, 1, Len(s) - 1)) + DigitVal(Ch(s, Len(s)))

\* the regular expressions datetime.strptime builds for the directives
ReYear == <<One("digit"), One("digit"), One("digit"), One("digit")>>
ReMonth == <<Alt(<< <<Lit("1"), One("d02")>>, <<Lit("0"), One("d19")>>, <<One("d19")>> >>)>>
ReDay == <<Alt(<< <<Lit("3"), One("d01")>>, <<One("d12"), One("digit")>>,
                  <<Lit("0"), One("d19")>>, <<One("d19")>>, <<Lit(" "), One("d19")>> >>)>>
ReHour == <<Alt(<< <<Lit("2"), One("d03")>>, <<One("d01"), One("digit")>>, <<One("digit")>> >>)>>
ReMinute == <<Alt(<< <<One("d05"), One("digit")>>, <<One("digit")>> >>)>>
ReSecond == <<Alt(<< <<Lit("6"), One("d01")>>, <<One("d05"), One("digit")>>, <<One("digit")>> >>)>>

\* groups: 1 = year, 2 = month, 3 = day
G(g, re) == <<Open(g)>> \o re \o <<Close(g)>>

ReTime == <<Rep("space", 1, TRUE)>> \o ReHour \o <<Lit(":")>> \o ReMinute \o <<Lit(":")>> \o ReSecond

date_patterns ==
    << G(1, ReYear) \o <<Lit("-")>> \o G(2, ReMonth) \o <<Lit("-")>> \o G(3, ReDay),   \* %Y-%m-%d
       G(3, ReDay) \o <<Lit("/")>> \o G(2, ReMonth) \o <<Lit("/")>> \o G(1, ReYear),   \* %d/%m/%Y
       G(1, ReYear) \o <<Lit("/")>> \o G(2, ReMonth) \o <<Lit("/")>> \o G(3, ReDay),   \* %Y/%m/%d
       G(3, ReDay) \o <<Lit("-")>> \o G(2, ReMonth) \o <<Lit("-")>> \o G(1, ReYear),   \* %d-%m-%Y
       G(1, ReYear) \o <<Lit("-")>> \o G(2, ReMonth) \o <<Lit("-")>> \o G(3, ReDay) \o ReTime,
       G(3, ReDay) \o <<Lit("/")>> \o G(2, ReMonth) \o <<Lit("/")>> \o G(1, ReYear) \o ReTime >>

DaysIn(y, m) ==
    IF m \in {4, 6, 9, 11} THEN 30
    ELSE IF m # 2 THEN 31
    ELSE IF (y % 4 = 0 /\ y % 100 # 0) \/ y % 400 = 0 THEN 29 ELSE 28

\* datetime.strptime(value, pattern) succeeds: the pattern matches at the
\* start, nothing remains unconverted, and the fields name a real day
Strptime(value, pattern) ==
    LET RealDay(y, mo, d) == y >= 1 /\ d <= DaysIn(y, mo)
        Converted(m) ==
            /\ m.ok
            /\ m.end = Len(value) + 1
            /\ RealDay(ToInt(Strip(Group(value, m, 1))), ToInt(Strip(Group(value, m, 2))),
                       ToInt(Strip(Group(value, m, 3))))
    IN  Converted(ReMatch(pattern, value, TRUE))

detect_value_type(value) ==
    IF IsFloat(value) THEN "number"
    ELSE IF \E i \in 1..Len(date_patterns) : Strptime(value, date_patterns[i]) THEN "date"
    ELSE "text"

----------------------------------------------------------------------------
(* Conditions.  The dictionaries of the source are records with every key  *)
(* present; a key the source leaves out holds the default that             *)
(* construct_where_clause's condition.get(key, default) would read.        *)

Cond(id, field, operator, value, type) ==
    [isdict |-> TRUE, id |-> id, field |-> field, operator |-> PyStr(operator),
     operator_desc |-> "", value |-> value, type |-> type,
     is_function |-> FALSE, function_name |-> "", format |-> "",
     original_value |-> <<>>]

\* the operator -> label table (labels in ASCII)
operators(op) ==
    CASE op = "=" -> "igual"
      [] op = "!=" -> "diferente"
      [] op = "<>" -> "diferente"
      [] op = ">" -> "maior"
      [] op = "<" -> "menor"
      [] op = ">=" -> "maior ou igual"
      [] op = "<=" -> "menor ou igual"
      [] op = "LIKE" -> "contem"
      [] op = "NOT LIKE" -> "nao contem"
      [] op = "IN" -> "em"
      [] op = "NOT IN" -> "nao em"
      [] op = "BETWEEN" -> "entre"
      [] op = "NOT BETWEEN" -> "nao entre"
      [] op = "IS NULL" -> "e nulo"
      [] op = "IS NOT NULL" -> "nao e nulo"
      [] OTHER -> op

S1 == Rep("space", 1, TRUE)
S0 == Rep("space", 0, TRUE)
OptNot == Opt(<<Lit("NOT"), S1>>)
FieldGroup == <<Open(1), Rep("nonspace", 1, TRUE), Close(1)>>

\* to_date\s*\(\s*([^,\)]+)\s*,\s*\'([^\']+)\'\s*\)   with groups g and g + 1
ToDateCall(g) ==
    <<Lit("to_date"), S0, Lit("("), S0, Open(g), Rep("notcommaparen", 1, TRUE), Close(g),
      S0, Lit(","), S0, Lit("'"), Open(g + 1), Rep("notquote", 1, TRUE), Close(g + 1),
      Lit("'"), S0, Lit(")")>>

\* ([^\s]+)\s+(?:NOT\s+)?BETWEEN\s+to_date(...)\s+AND\s+to_date(...)
to_date_pattern ==
    FieldGroup \o <<S1, OptNot, Lit("BETWEEN"), S1>> \o ToDateCall(2)
      \o <<S1, Lit("AND"), S1>> \o ToDateCall(4)

\* 'NOT' in text.upper().split('BETWEEN')[0]
is_not_between(text) ==
    LET Before(b) == IF b = 0 THEN text ELSE SubSeq(text, 1, b - 1)
    IN  FindFromNoCase(Before(FindFromNoCase(text, "BETWEEN", 1)), "NOT", 1) > 0

\* the condition both to_date branches build from a match m of to_date_pattern
\* in text; negText is the text whose part before BETWEEN is searched for NOT
ToDateCondition(text, m, negText, id) ==
    LET Built(field, start_param, start_format, end_param, end_format, neg) ==
            [isdict |-> TRUE, id |-> id, field |-> field,
             operator |-> PyStr(IF neg THEN "NOT BETWEEN" ELSE "BETWEEN"),
             operator_desc |-> IF neg THEN "nao entre" ELSE "entre",
             value |-> StrList(<<"to_date(" \o start_param \o ", '" \o start_format \o "')",
                                 "to_date(" \o end_param \o ", '" \o end_format \o "')">>),
             type |-> "date",
             is_function |-> TRUE, function_name |-> "to_date", format |-> start_format,
             original_value |-> <<start_param, end_param>>]
    IN  Built(Strip(Group(text, m, 1)), Strip(Group(text, m, 2)), Strip(Group(text, m, 3)),
              Strip(Group(text, m, 4)), Strip(Group(text, m, 5)), is_not_between(negText))

\* 'NOT' in m.group(0).upper()
HasNot(text, m) == FindFromNoCase(Group0(text, m), "NOT", 1) > 0

between_pattern ==
    FieldGroup \o <<S1, OptNot, Lit("BETWEEN"), S1, Open(2), Rep("dot", 0, FALSE), Close(2),
                    S1, Lit("AND"), S1, Open(3), Rep("dot", 0, TRUE), Close(3)>>

in_pattern ==
    FieldGroup \o <<S1, OptNot, Lit("IN"), S0, Lit("("), Open(2), Rep("dot", 0, TRUE), Close(2),
                    Lit(")")>>

null_pattern ==
    FieldGroup \o <<S1, Lit("IS"), S1, OptNot, Lit("NULL")>>

operator_pattern ==
    FieldGroup \o <<S1, Open(2),
                    Alt(<< <<Lit("=")>>, <<Lit("!=")>>, <<Lit("<>")>>, <<Lit(">")>>, <<Lit("<")>>,
                           <<Lit(">=")>>, <<Lit("<=")>>, <<Lit("LIKE")>>,
                           <<Lit("NOT"), S1, Lit("LIKE")>> >>),
                    Close(2), S1, Open(3), Rep("dot", 0, TRUE), Close(3)>>

Unquote(s) == StripQuotes(Strip(s))

RECURSIVE UnquoteAll(_)
UnquoteAll(parts) ==
    IF parts = <<>> THEN <<>> ELSE <<Unquote(Head(parts))>> \o UnquoteAll(Tail(parts))

BetweenHandler(c, m, id) ==
    Cond(id, Strip(Group(c, m, 1)),
         IF HasNot(c, m) THEN "NOT BETWEEN" ELSE "BETWEEN",
         StrList(<<Unquote(Group(c, m, 2)), Unquote(Group(c, m, 3))>>),
         detect_value_type(Unquote(Group(c, m, 2))))

InHandler(c, m, id) ==
    Cond(id, Strip(Group(c, m, 1)),
         IF HasNot(c, m) THEN "NOT IN" ELSE "IN",
         StrList(UnquoteAll(Split(Group(c, m, 2), ","))),
         detect_value_type(Unquote(Split(Group(c, m, 2), ",")[1])))

NullHandler(c, m, id) ==
    [Cond(id, Strip(Group(c, m, 1)),
          IF HasNot(c, m) THEN "IS NOT NULL" ELSE "IS NULL",
          PyNone, "null") EXCEPT !.value = PyNone]

OperatorHandler(c, m, id) ==
    Cond(id, Strip(Group(c, m, 1)),
         Upper(Strip(Group(c, m, 2))),
         PyStr(Unquote(Group(c, m, 3))),
         detect_value_type(Unquote(Group(c, m, 3))))

WithDesc(c) == [c EXCEPT !.operator_desc = operators(Upper(c.operator.s))]

NoCond == [ok |-> FALSE, c |-> Cond(0, "", "", PyNone, "")]

\* parse_condition: the to_date special case, then the four patterns in
\* order; the first that matches at the start of the fragment decides.  Only
\* the to_date pattern and the operator pattern are case-insensitive.
parse_condition(condition, condition_id) ==
    LET Parsed(c) == [ok |-> TRUE, c |-> c]
        Special(m, otherwise) ==
            IF m.ok THEN Parsed(ToDateCondition(condition, m, condition, condition_id))
            ELSE otherwise
        Between(m, otherwise) ==
            IF m.ok THEN Parsed(WithDesc(BetweenHandler(condition, m, condition_id)))
            ELSE otherwise
        In(m, otherwise) ==
            IF m.ok THEN Parsed(WithDesc(InHandler(condition, m, condition_id)))
            ELSE otherwise
        Null(m, otherwise) ==
            IF m.ok THEN Parsed(WithDesc(NullHandler(condition, m, condition_id)))
            ELSE otherwise
        Operator(m, otherwise) ==
            IF m.ok THEN Parsed(WithDesc(OperatorHandler(condition, m, condition_id)))
            ELSE otherwise
    IN  Special(ReMatch(to_date_pattern, condition, TRUE),
        Between(ReMatch(between_pattern, condition, FALSE),
        In(ReMatch(in_pattern, condition, FALSE),
        Null(ReMatch(null_pattern, condition, FALSE),
        Operator(ReMatch(operator_pattern, condition, TRUE),
        NoCond)))))

----------------------------------------------------------------------------
(* extract_conditions                                                      *)

\* re.sub(r'^\s*WHERE\s+', '', where_clause, flags=re.IGNORECASE)
StripWhereKeyword(where_clause) ==
    LET Rest(m) == IF m.ok THEN SubSeq(where_clause, m.end, Len(where_clause)) ELSE where_clause
    IN  Rest(ReMatch(<<S0, Lit("WHERE"), S1>>, where_clause, TRUE))

\* what is left of the clause once the to_date condition's text is taken out
\* (every occurrence of it), less one leading "AND " or "OR "
RemainingClause(where_clause, condition_text) ==
    LET LessConnective(remaining, stripped) ==
            IF StartsWithAt(stripped, 1, "AND ") THEN SubSeq(stripped, 5, Len(stripped))
            ELSE IF StartsWithAt(stripped, 1, "OR ") THEN SubSeq(stripped, 4, Len(stripped))
            ELSE remaining
        Remaining(remaining) == LessConnective(remaining, Strip(remaining))
    IN  Remaining(Replace(where_clause, condition_text, ""))

\* the remainder's conditions appended with the ids they came with
KeepIds(more_conditions) == more_conditions

\* cond['id'] = i + 1 for i, cond in enumerate(more_conditions)
Renumber(more_conditions) ==
    [i \in 1..Len(more_conditions) |-> [more_conditions[i] EXCEPT !.id = (i - 1) + 1]]

\* the fragments of the generic path: split on \sAND\s, each piece on \sOR\s,
\* each fragment stripped, the empty ones skipped
RECURSIVE NonEmptyStripped(_)
NonEmptyStripped(parts) ==
    IF parts = <<>> THEN <<>>
    ELSE (IF Strip(Head(parts)) = "" THEN <<>> ELSE <<Strip(Head(parts))>>)
           \o NonEmptyStripped(Tail(parts))

RECURSIVE SplitEachOnOr(_)
SplitEachOnOr(and_parts) ==
    IF and_parts = <<>> THEN <<>>
    ELSE ReSplit(<<One("space"), Lit("OR"), One("space")>>, Head(and_parts), TRUE)
           \o SplitEachOnOr(Tail(and_parts))

Fragments(where_clause) ==
    NonEmptyStripped(SplitEachOnOr(
        ReSplit(<<One("space"), Lit("AND"), One("space")>>, where_clause, TRUE)))

\* a loop that gives up at the first fragment that does not parse
RECURSIVE StopAtUnparseable(_, _)
StopAtUnparseable(frags, condition_id) ==
    IF frags = <<>> THEN <<>>
    ELSE LET Appended(parsed_condition) ==
                 IF parsed_condition.ok
                 THEN <<parsed_condition.c>> \o StopAtUnparseable(Tail(frags), condition_id + 1)
                 ELSE <<>>
         IN  Appended(parse_condition(Head(frags), condition_id))

\* the loop over the fragments: condition_id advances only when a fragment
\* parsed
RECURSIVE ParseFragments(_, _)
ParseFragments(frags, condition_id) ==
    IF frags = <<>> THEN <<>>
    ELSE LET Appended(parsed_condition) ==
                 IF parsed_condition.ok
                 THEN <<parsed_condition.c>> \o ParseFragments(Tail(frags), condition_id + 1)
                 ELSE ParseFragments(Tail(frags), condition_id)
         IN  Appended(parse_condition(Head(frags), condition_id))

RECURSIVE extract_conditions(_)
extract_conditions(clause) ==
    LET ToDateBranch(where_clause, to_date_match, condition_text) ==
            <<ToDateCondition(where_clause, to_date_match, condition_text, 0)>>
              \o (IF Strip(Replace(where_clause, condition_text, "")) # ""
                  THEN Renumber(extract_conditions(RemainingClause(where_clause, condition_text)))
                  ELSE <<>>)
        Branch(where_clause, to_date_match) ==
            IF to_date_match.ok
            THEN ToDateBranch(where_clause, to_date_match, Group0(where_clause, to_date_match))
            ELSE ParseFragments(Fragments(where_clause), 0)
        Extract(where_clause) ==
            Branch(where_clause, ReSearch(to_date_pattern, where_clause, TRUE))
    IN  Extract(StripWhereKeyword(clause))

----------------------------------------------------------------------------
(* format_value and construct_where_clause.  A call either returns a       *)
(* string (ok) or raises (~ok).                                            *)

Returns(s) == [ok |-> TRUE, s |-> s]
Raises == [ok |-> FALSE, s |-> ""]

\* float(value) succeeds: ValueError on a string that is no float literal,
\* TypeError on a list
CanFloat(value) ==
    CASE value.k = "str" -> IsFloat(value.s)
      [] value.k = "int" -> TRUE
      [] OTHER -> FALSE

Quoted(s) == "'" \o s \o "'"

\* a number branch that quotes every value, as the text branch does
QuotedNumber(value) == Returns(Quoted(PyText(value)))

NumberValue(value) ==
    IF value.k = "str" /\ value.s = "" THEN Returns("NULL")
    ELSE IF CanFloat(value) THEN Returns(PyText(value))
    ELSE Returns(Quoted(PyText(value)))

\* "'" not in value: a substring test on a string, a membership test on a
\* list, a TypeError on a number
\* a date branch that wraps every value in quotes
AlwaysQuotedDate(value) == Returns(Quoted(PyText(value)))

DateValue(value) ==
    IF value.k = "str" /\ value.s = "" THEN Returns("NULL")
    ELSE IF value.k = "int" THEN Raises
    ELSE IF value.k = "list"
         THEN IF \A i \in 1..Len(value.items) : value.items[i] # PyStr("'")
              THEN Returns(Quoted(PyText(value)))
              ELSE Returns(PyText(value))
    ELSE IF ~Contains(value.s, "'") THEN Returns(Quoted(value.s))
    ELSE Returns(value.s)

TextValue(value) ==
    IF value.k = "str" THEN Returns(Quoted(Replace(value.s, "'", "''")))
    ELSE Returns(Quoted(PyText(value)))

format_value(value, value_type) ==
    IF value.k = "none" THEN Returns("NULL")
    ELSE IF value.k = "str" /\ FindFromNoCase(value.s, "to_date(", 1) > 0 THEN Returns(value.s)
    ELSE IF value_type = "number" THEN NumberValue(value)
    ELSE IF value_type = "date" THEN DateValue(value)
    ELSE TextValue(value)

\* a list comprehension's next step: the member f put before the members r,
\* unless building either raised
Prepend(f, r) ==
    IF f.ok /\ r.ok THEN [ok |-> TRUE, parts |-> <<f.s>> \o r.parts]
    ELSE [ok |-> FALSE, parts |-> <<>>]

\* [format_value(v, value_type) for v in value]: raises when a member does
RECURSIVE FormatAll(_, _)
FormatAll(items, value_type) ==
    IF items = <<>> THEN [ok |-> TRUE, parts |-> <<>>]
    ELSE Prepend(format_value(Head(items), value_type), FormatAll(Tail(items), value_type))

\* a loop body that knows the final branch only: field, operator and the
\* value through format_value, whatever the operator
ValuePart(condition) ==
    IF ~condition.isdict \/ condition.operator.k # "str" THEN Raises
    ELSE IF format_value(condition.value, condition.type).ok
    THEN Returns(condition.field \o " " \o condition.operator.s \o " "
                   \o format_value(condition.value, condition.type).s)
    ELSE Raises

\* one pass of construct_where_clause's loop: the part appended for a
\* condition.  condition.get raises on an entry that is no dictionary,
\* operator.upper() on an operator that is no string.
WherePart(condition) ==
    IF ~condition.isdict \/ condition.operator.k # "str" THEN Raises
    ELSE
      LET field == condition.field
          operator == condition.operator.s
          value == condition.value
          Bounds(formatted_values) ==
              IF formatted_values.ok
              THEN Returns(field \o " " \o operator \o " " \o formatted_values.parts[1]
                             \o " AND " \o formatted_values.parts[2])
              ELSE Raises
          Members(formatted_values) ==
              IF formatted_values.ok
              THEN Returns(field \o " " \o operator \o " ("
                             \o Join(formatted_values.parts, ", ") \o ")")
              ELSE Raises
          Single(formatted_value) ==
              IF formatted_value.ok
              THEN Returns(field \o " " \o operator \o " " \o formatted_value.s)
              ELSE Raises
          Part(op) ==
              IF op \in {"IS NULL", "IS NOT NULL"}
              THEN Returns(field \o " " \o operator)
              ELSE IF op \in {"BETWEEN", "NOT BETWEEN"} /\ value.k = "list" /\ Len(value.items) = 2
              THEN IF condition.is_function
                   THEN Returns(field \o " " \o operator \o " " \o PyText(value.items[1])
                                  \o " AND " \o PyText(value.items[2]))
                   ELSE Bounds(FormatAll(value.items, condition.type))
              ELSE IF op \in {"IN", "NOT IN"} /\ value.k = "list"
              THEN Members(FormatAll(value.items, condition.type))
              ELSE Single(format_value(value, condition.type))
      IN  Part(Upper(operator))

RECURSIVE WhereParts(_)
WhereParts(conditions) ==
    IF conditions = <<>> THEN [ok |-> TRUE, parts |-> <<>>]
    ELSE Prepend(WherePart(Head(conditions)), WhereParts(Tail(conditions)))

\* " AND ".join(where_parts), unless building the parts raised
JoinParts(where_parts) ==
    IF where_parts.ok THEN Returns(Join(where_parts.parts, " AND ")) ELSE Raises

construct_where_clause(conditions) == JoinParts(WhereParts(conditions))

----------------------------------------------------------------------------
(* parse_sql_query.  sqlparse is a library outside the repository; what    *)
(* the function uses of it is modelled here: the first Where group of the  *)
(* statement starts at the first WHERE keyword (a word of its own, outside *)
(* a string literal) and runs to the token before the next closing keyword *)
(* of the same parenthesis level, to the parenthesis that closes the level *)
(* or to the end of the statement.                                         *)

IsLetter(c) == c \in DOMAIN ToUpper \/ c \in DOMAIN ToLower

IsWordCh(c) == IsLetter(c) \/ IsDigit(c) \/ c \in {"_", "$", "#"}

\* the keyword kw (an item list) stands at position i as a word of its own;
\* the position after it, or 0
KeywordAt(s, i, kw) ==
    LET WordEnd(m) ==
            IF /\ (i = 1 \/ ~IsWordCh(Ch(s, i - 1)))
               /\ m.ok
               /\ (m.end > Len(s) \/ ~IsWordCh(Ch(s, m.end)))
            THEN m.end ELSE 0
    IN  WordEnd(MatchAt(kw, s, i, NoCaps, TRUE))

\* sqlparse.sql.Where.M_CLOSE
WhereClosers ==
    << <<Lit("ORDER"), S1, Lit("BY")>>, <<Lit("GROUP"), S1, Lit("BY")>>, <<Lit("LIMIT")>>,
       <<Lit("UNION")>>, <<Lit("EXCEPT")>>, <<Lit("HAVING")>>, <<Lit("RETURNING")>>,
       <<Lit("INTO")>> >>

\* position i lies inside a string literal
InQuote(s, i) == Cardinality({j \in 1..(i - 1) : Ch(s, j) = "'"}) % 2 = 1

\* parentheses opened and not closed between from and i, literals aside
DepthAt(s, from, i) ==
    Cardinality({j \in from..(i - 1) : Ch(s, j) = "(" /\ ~InQuote(s, j)})
      - Cardinality({j \in from..(i - 1) : Ch(s, j) = ")" /\ ~InQuote(s, j)})

\* position of the first WHERE keyword outside string literals; 0 if none
FindWhere(s) ==
    FirstOf({i \in 1..Len(s) : KeywordAt(s, i, <<Lit("WHERE")>>) > 0 /\ ~InQuote(s, i)}, 0)

\* first position at or after from that ends the Where group (exclusive end)
WhereEnd(s, from) ==
    FirstOf({i \in from..Len(s) :
                /\ \/ Ch(s, i) = ")"
                   \/ \E k \in 1..Len(WhereClosers) : KeywordAt(s, i, WhereClosers[k]) > 0
                /\ ~InQuote(s, i)
                /\ DepthAt(s, from, i) = 0},
            Len(s) + 1)

\* find_where_tokens(stmt.tokens)[0], less the WHERE keyword: [found, clause]
LocateWhere(formatted_query) ==
    LET WhereGroup(w) ==
            IF w = 0 THEN [found |-> FALSE, clause |-> ""]
            ELSE [found |-> TRUE,
                  clause |-> SubSeq(formatted_query, w + 5,
                                    WhereEnd(formatted_query, w + 5) - 1)]
    IN  WhereGroup(FindWhere(formatted_query))

\* sqlparse.format(query, ...): a statement without comments is returned with
\* the trailing whitespace of each line removed
RECURSIVE RStripLines(_)
RStripLines(lines) ==
    IF lines = <<>> THEN <<>>
    ELSE <<RStripSet(Head(lines), {" ", "\t"})>> \o RStripLines(Tail(lines))

SqlFormat(q) == Join(RStripLines(Split(q, "\n")), "\n")

parse_sql_query(q) ==
    LET Conditions(where) ==
            IF ~where.found THEN <<>>                     \* no WHERE clause
            ELSE extract_conditions(where.clause)
        Parse(formatted_query) ==
            IF Strip(formatted_query) = "" THEN <<>>      \* nothing parsed
            ELSE Conditions(LocateWhere(formatted_query))
    IN  Parse(SqlFormat(q))

\* the parse_query route of app.py: the status of the JSON answer
ParseStatus(q, parsed_conditions) ==
    IF Strip(q) = "" THEN "error"
    ELSE IF parsed_conditions = <<>> THEN "no_where"
    ELSE "success"

----------------------------------------------------------------------------
(* reconstruct_sql_query                                                   *)

\* (?i)(.*)\s+WHERE\s+(.*)   with re.DOTALL
where_pattern ==
    <<Open(1), Rep("any", 0, TRUE), Close(1), S1, Lit("WHERE"), S1,
      Open(2), Rep("any", 0, TRUE), Close(2)>>

\* a no-WHERE branch that appends the new clause to the statement
WhereAppended(original_query, modified_conditions) ==
    original_query \o " WHERE " \o construct_where_clause(modified_conditions).s

\* the branch taken when the statement has no WHERE to anchor on
NoWhereResult(original_query, modified_conditions) == original_query

\* the primary path: [ok, s, path]; ~ok when construct_where_clause raised
PrimaryPath(original_query, modified_conditions) ==
    LET Rebuilt(before_where, new_where_clause) ==
            IF ~new_where_clause.ok THEN [ok |-> FALSE, s |-> "", path |-> "primary"]
            ELSE [ok |-> TRUE, s |-> before_where \o " WHERE " \o new_where_clause.s,
                  path |-> "primary"]
        Matched(formatted_query, match) ==
            IF ~match.ok
            THEN [ok |-> TRUE, s |-> NoWhereResult(original_query, modified_conditions),
                  path |-> "nowhere"]
            ELSE Rebuilt(Group(formatted_query, match, 1),
                         construct_where_clause(modified_conditions))
        Primary(formatted_query) ==
            Matched(formatted_query, ReSearch(where_pattern, formatted_query, TRUE))
    IN  Primary(SqlFormat(original_query))

\* (?i)(.*\s+WHERE\s+).*?(\s+GROUP BY.*|\s+ORDER BY.*|\s+HAVING.*|\s+LIMIT.*|;|$)
fallback_pattern ==
    <<Open(1), Rep("dot", 0, TRUE), S1, Lit("WHERE"), S1, Close(1), Rep("dot", 0, FALSE), Open(2),
      Alt(<< <<S1, Lit("GROUP BY"), Rep("dot", 0, TRUE)>>,
             <<S1, Lit("ORDER BY"), Rep("dot", 0, TRUE)>>,
             <<S1, Lit("HAVING"), Rep("dot", 0, TRUE)>>,
             <<S1, Lit("LIMIT"), Rep("dot", 0, TRUE)>>,
             <<Lit(";")>>, <<EndAnchor>> >>),
      Close(2)>>

\* (?i)(.*\s+WHERE\s+).*?($)
fallback_tail_pattern ==
    <<Open(1), Rep("dot", 0, TRUE), S1, Lit("WHERE"), S1, Close(1), Rep("dot", 0, FALSE), Open(2),
      EndAnchor, Close(2)>>

\* re.sub(pattern, fr'\1{clause}\2', s): every match replaced
RECURSIVE ReSubClause(_, _, _)
ReSubClause(items, s, clause) ==
    LET Replaced(m) ==
            IF ~m.ok \/ m.end = m.start THEN s
            ELSE SubSeq(s, 1, m.start - 1) \o Group(s, m, 1) \o clause \o Group(s, m, 2)
                   \o ReSubClause(items, SubSeq(s, m.end, Len(s)), clause)
    IN  Replaced(ReSearch(items, s, TRUE))

\* the clause is pasted into the replacement template: re raises re.error when
\* the template then reads as a reference to a group the pattern lacks (\1
\* followed by a digit).  No clause of the model holds a backslash or starts
\* with two digits, which the template would read as other escapes.
TemplateOk(clause) == ~(clause # "" /\ IsDigit(Head(clause)))

\* the fallback path, entered when the primary path raised
FallbackPath(original_query, modified_conditions) ==
    LET Substituted(pattern, new_where_clause) ==
            [ok |-> TRUE, s |-> ReSubClause(pattern, original_query, new_where_clause.s),
             path |-> "fallback"]
        Fallback(new_where_clause) ==
            IF ~new_where_clause.ok \/ ~TemplateOk(new_where_clause.s)
            THEN [ok |-> FALSE, s |-> "", path |-> "fallback"]
            ELSE Substituted(IF ReSearch(fallback_pattern, original_query, TRUE).ok
                             THEN fallback_pattern ELSE fallback_tail_pattern,
                             new_where_clause)
    IN  Fallback(construct_where_clause(modified_conditions))

\* an inner except that lets the exception through
Reraised(original_query) == [ok |-> FALSE, s |-> "", path |-> "original"]

\* the inner except: the fallback raised too
BothRaised(original_query) == [ok |-> TRUE, s |-> original_query, path |-> "original"]

\* the result of a try block, or of its except block when it raised
Except(tried, handler) == IF tried.ok THEN tried ELSE handler

reconstruct_sql_query(original_query, modified_conditions) ==
    Except(PrimaryPath(original_query, modified_conditions),
           Except(FallbackPath(original_query, modified_conditions),
                  BothRaised(original_query)))

----------------------------------------------------------------------------
(* The statements, condition lists and values the functions are run on.    *)

MaxFrags == 2       \* fragments in a WHERE clause
MaxEditFrags == 1   \* statements of at most this many fragments are also rebuilt from edited lists

Frag(kind, text, field, op, operands, type) ==
    [kind |-> kind, text |-> text, field |-> field, op |-> op, operands |-> operands,
     type |-> type]

\* the fragments statements are written from, each with the field, operator
\* and bare operands it was written with
FragVocab ==
    << Frag("cmp", "a = 1", "a", "=", <<"1">>, "number"),
       Frag("in", "b IN ('x','y')", "b", "IN", <<"x", "y">>, "text"),
       Frag("null", "c IS NOT NULL", "c", "IS NOT NULL", <<>>, "null"),
       Frag("null", "c IS NULL", "c", "IS NULL", <<>>, "null"),
       Frag("in", "notes IN (1, 2)", "notes", "IN", <<"1", "2">>, "number"),
       Frag("in", "b NOT IN (3)", "b", "NOT IN", <<"3">>, "number"),
       Frag("between", "a BETWEEN 1 AND 5", "a", "BETWEEN", <<"1", "5">>, "number"),
       Frag("cmp", "n LIKE 'O%'", "n", "LIKE", <<"O%">>, "text"),
       Frag("cmp", "d >= '2024-01-15'", "d", ">=", <<"2024-01-15">>, "date"),
       Frag("todate", "d BETWEEN to_date(:a,'YYYY-MM-DD') AND to_date(:b,'YYYY-MM-DD')",
            "d", "BETWEEN", <<":a", "YYYY-MM-DD", ":b", "YYYY-MM-DD">>, "date"),
       Frag("todate", "notes BETWEEN to_date(:a,'YYYY-MM-DD') AND to_date(:b,'YYYY-MM-DD')",
            "notes", "BETWEEN", <<":a", "YYYY-MM-DD", ":b", "YYYY-MM-DD">>, "date"),
       Frag("todate", "d NOT BETWEEN to_date(:a,'YYYY-MM-DD') AND to_date(:b,'DD/MM/YYYY')",
            "d", "NOT BETWEEN", <<":a", "YYYY-MM-DD", ":b", "DD/MM/YYYY">>, "date"),
       Frag("junk", "a=1", "", "", <<>>, "") >>

Connectives == {" AND ", " OR "}

\* what follows the clause: nothing, a trailing clause, or a second SELECT
\* with a WHERE of its own
SecondSelect == " UNION SELECT * FROM u WHERE b = 2"

Trailers == {"", " ORDER BY a", SecondSelect}

SelectFrom == "SELECT * FROM t"

RECURSIVE SeqsUpTo(_, _)
SeqsUpTo(S, n) ==
    IF n = 0 THEN {<<>>}
    ELSE LET shorter == SeqsUpTo(S, n - 1)
         IN  shorter \cup {Append(q, x) : q \in {r \in shorter : Len(r) = n - 1}, x \in S}

\* the fragments that clauses of several fragments are written from
Core == {1, 2, 3, 5, 7, 10, 13}

\* a clause of one fragment is written from any of them
Clauses ==
    {<<>>} \cup {<<i>> : i \in 1..Len(FragVocab)}
      \cup {ix \in SeqsUpTo(Core, MaxFrags) : Len(ix) >= 2}

Shapes ==
    {[ix |-> ix, conn |-> c, trailer |-> t] :
        ix \in Clauses, c \in Connectives, t \in Trailers}

HasWhere(sh) == sh.ix # <<>>

FragsOf(sh) == [i \in 1..Len(sh.ix) |-> FragVocab[sh.ix[i]]]

ClauseText(sh) == Join([i \in 1..Len(sh.ix) |-> FragVocab[sh.ix[i]].text], sh.conn)

QueryText(sh) ==
    SelectFrom \o (IF HasWhere(sh) THEN " WHERE " \o ClauseText(sh) ELSE "") \o sh.trailer

TwoWheres(sh) == sh.trailer = SecondSelect

\* a statement of one fragment needs no connective; the statements with a
\* second SELECT are those of one fragment
Canonical(sh) ==
    /\ Len(sh.ix) >= 2 \/ sh.conn = " AND "
    /\ TwoWheres(sh) => Len(sh.ix) = 1

ToDateCond(id, field, operator, p1, f1, p2, f2) ==
    [isdict |-> TRUE, id |-> id, field |-> field, operator |-> PyStr(operator),
     operator_desc |-> "", value |-> StrList(<<"to_date(" \o p1 \o ", '" \o f1 \o "')",
                                               "to_date(" \o p2 \o ", '" \o f2 \o "')">>),
     type |-> "date", is_function |-> TRUE, function_name |-> "to_date", format |-> f1,
     original_value |-> <<p1, p2>>]

NotADict == [Cond(0, "", "", PyNone, "") EXCEPT !.isdict = FALSE]

\* condition lists a client may send: well-formed ones of every operator
\* family, and ill-typed ones (an operator that is null, an entry that is no
\* object, a number where the date formatter expects text)
SampleLists ==
    { <<Cond(0, "c", "IS NULL", PyNone, "null")>>,
      <<Cond(0, "t.c", "is not null", PyStr("ignored"), "text")>>,
      <<ToDateCond(0, "d", "BETWEEN", ":a", "YYYY-MM-DD", ":b", "YYYY-MM-DD"),
        Cond(1, "c", "IS NOT NULL", PyNone, "null")>>,
      <<Cond(0, "a", "NOT BETWEEN", StrList(<<"1", "x">>), "number"),
        Cond(1, "n", "IN", StrList(<<"x", "O'Brien">>), "text")>>,
      <<Cond(0, "d", "BETWEEN", StrList(<<"2024-01-15", "">>), "date"),
        Cond(1, "k", "NOT IN", PyList(<<PyStr("7"), PyNone>>), "number")>>,
      <<Cond(0, "n", "LIKE", PyStr("O'Brien"), "text"),
        Cond(1, "d", ">=", PyStr("2024-01-15"), "date"),
        Cond(2, "a", "<", PyStr("5"), "number")>>,
      <<Cond(0, "a", "=", PyNone, "number")>>,
      <<Cond(0, "a", "=", PyInt("5"), "number")>>,
      <<[Cond(0, "a", "=", PyStr("1"), "number") EXCEPT !.operator = PyNone]>>,
      <<Cond(0, "a", "=", PyStr("1"), "number"), NotADict>>,
      <<Cond(0, "d", "=", PyInt("5"), "date")>>,
      <<Cond(0, "d", "IN", PyList(<<PyStr("2024-01-15"), PyInt("5")>>), "date")>> }

\* the parsed list with the first scalar value retyped by the user
ValueEdits(cs) ==
    IF cs # <<>> /\ cs[1].value.k = "str"
    THEN {[cs EXCEPT ![1].value = PyStr(v)] : v \in {"7", "O'Brien"}}
    ELSE {}

Edits(sh, cs) ==
    {cs} \cup (IF Len(sh.ix) <= MaxEditFrags THEN SampleLists \cup ValueEdits(cs) ELSE {})

Values ==
    { "1", "1.5", "-3", " 5 ", "1e5", ".5", "nan", "20240101", "0",
      "x", "abc", "O'Brien", "'x'", "1;", "", " ", "a b", "it''s", "'", "%",
      "2024-01-15", "15/01/2024", "2024/1/5", "31-12-1999", "2024-01-15 10:20:30",
      "2024-02-30", "2024-13-01", "'2024-01-15'",
      "to_date(:a, 'YYYY-MM-DD')", "TO_DATE(:a, 'DD')", "to_date(", "to_date", ":a", "NULL", "'1'" }

\* fragments handed to parse_condition on their own, each with the operator
\* it is written with: negated and not, with the letters NOT in the field
\* name or in an operand
IsolatedFrags ==
    { [text |-> "c IS NULL", op |-> "IS NULL"],
      [text |-> "c IS NOT NULL", op |-> "IS NOT NULL"],
      [text |-> "notes IS NULL", op |-> "IS NULL"],
      [text |-> "b IN ('x','y')", op |-> "IN"],
      [text |-> "b NOT IN (3)", op |-> "NOT IN"],
      [text |-> "notes IN (1, 2)", op |-> "IN"],
      [text |-> "b IN ('nothing')", op |-> "IN"],
      [text |-> "a BETWEEN 1 AND 5", op |-> "BETWEEN"],
      [text |-> "a NOT BETWEEN 1 AND 5", op |-> "NOT BETWEEN"],
      [text |-> "notes BETWEEN 1 AND 5", op |-> "BETWEEN"],
      [text |-> "a BETWEEN 'x' AND 'knot'", op |-> "BETWEEN"],
      [text |-> "d BETWEEN to_date(:a,'YYYY-MM-DD') AND to_date(:b,'YYYY-MM-DD')",
       op |-> "BETWEEN"],
      [text |-> "d not between to_date(:a,'YYYY-MM-DD') and to_date(:b,'YYYY-MM-DD')",
       op |-> "NOT BETWEEN"],
      [text |-> "notes BETWEEN to_date(:a,'YYYY-MM-DD') AND to_date(:b,'YYYY-MM-DD')",
       op |-> "BETWEEN"],
      [text |-> "d BETWEEN to_date(:not_a,'YYYY-MM-DD') AND to_date(:b,'YYYY-MM-DD')",
       op |-> "BETWEEN"] }

\* the types a condition may declare for its value, known to format_value
\* or not
DeclaredTypes == {"number", "date", "text", "null", "varchar"}

\* the values handed to format_value: None and the strings
GivenValues == {PyNone} \cup {PyStr(v) : v \in Values}

----------------------------------------------------------------------------
NoShape == [ix |-> <<>>, conn |-> "", trailer |-> ""]

Init ==
    /\ pc = "start"
    /\ shape = NoShape
    /\ query = ""
    /\ conds = <<>>
    /\ status = ""
    /\ edited = <<>>
    /\ result = ""
    /\ path = ""
    /\ val = ""
    /\ vtype = ""
    /\ fmt1 = ""
    /\ fmt2 = ""
    /\ given = PyNone

\* the parse_query route: the statement arrives, parse_sql_query runs, the
\* status is answered
ParseQuery(sh) ==
    /\ pc = "start"
    /\ Canonical(sh)
    /\ shape' = sh
    /\ query' = QueryText(sh)
    /\ conds' = parse_sql_query(query')
    /\ status' = ParseStatus(query', conds')
    /\ pc' = "parsed"
    /\ UNCHANGED <<given, edited, result, path, val, vtype, fmt1, fmt2>>

\* reconstruct_sql_query(query, modified_conditions): the value returned, or
\* "raised" when the call left through an exception
ReconstructQuery(modified_conditions) ==
    /\ pc = "parsed"
    /\ \E r \in {reconstruct_sql_query(query, modified_conditions)} :
           /\ result' = r.s
           /\ path' = r.path
           /\ pc' = IF r.ok THEN "rebuilt" ELSE "raised"
    /\ edited' = modified_conditions
    /\ UNCHANGED <<given, shape, query, conds, status, val, vtype, fmt1, fmt2>>

\* detect_value_type(v)
TypeValue(v) ==
    /\ pc = "start"
    /\ val' = v
    /\ vtype' = detect_value_type(v)
    /\ pc' = "typed"
    /\ UNCHANGED <<given, shape, query, conds, status, edited, result, path, fmt1, fmt2>>

\* format_value(val, vtype)
FormatOnce ==
    /\ pc = "typed"
    /\ fmt1' = format_value(PyStr(val), vtype).s
    /\ pc' = "once"
    /\ UNCHANGED <<given, shape, query, conds, status, edited, result, path, val, vtype, fmt2>>

\* the literal typed and formatted again
FormatAgain ==
    /\ pc = "once"
    /\ fmt2' = format_value(PyStr(fmt1), detect_value_type(fmt1)).s
    /\ pc' = "twice"
    /\ UNCHANGED <<given, shape, query, conds, status, edited, result, path, val, vtype, fmt1>>

\* parse_condition(condition, 0) on a fragment of its own
ParseCondition(condition) ==
    /\ pc = "start"
    /\ query' = condition
    /\ \E r \in {parse_condition(condition, 0)} : conds' = IF r.ok THEN <<r.c>> ELSE <<>>
    /\ pc' = "matched"
    /\ UNCHANGED <<given, shape, status, edited, result, path, val, vtype, fmt1, fmt2>>

\* format_value(value, value_type) on a value and a type of the caller's
\* choice: the literal returned, or "format_raised"
FormatDeclared(value, value_type) ==
    /\ pc = "start"
    /\ given' = value
    /\ vtype' = value_type
    /\ \E r \in {format_value(value, value_type)} :
           /\ fmt1' = r.s
           /\ pc' = IF r.ok THEN "formatted" ELSE "format_raised"
    /\ UNCHANGED <<shape, query, conds, status, edited, result, path, val, fmt2>>

Next ==
    \/ \E sh \in Shapes : ParseQuery(sh)
    \/ \E ed \in Edits(shape, conds) : ReconstructQuery(ed)
    \/ \E v \in Values : TypeValue(v)
    \/ FormatOnce
    \/ FormatAgain
    \/ \E value \in GivenValues, value_type \in DeclaredTypes : FormatDeclared(value, value_type)
    \/ \E f \in IsolatedFrags : ParseCondition(f.text)

Spec == Init /\ [][Next]_vars

----------------------------------------------------------------------------
(* The properties claimed of the program.                                  *)

\* text compared modulo whitespace, and modulo letter case as well
NoSpace(s) == Replace(s, " ", "")
Squeeze(s) == Upper(NoSpace(s))

\* the WHERE clause of the statement returned
ResultClause ==
    IF StartsWithAt(result, 1, SelectFrom \o " WHERE ")
    THEN SubSeq(result, Len(SelectFrom) + 8, Len(result))
    ELSE result

KindsOf(sh) == {FragVocab[sh.ix[i]].kind : i \in 1..Len(sh.ix)}

\* the fragments of the clause as written, one predicate after the other
Predicates(sh) == Join([i \in 1..Len(sh.ix) |-> FragVocab[sh.ix[i]].text], " AND ")

\* C1: round trip on supported shapes.  A statement whose WHERE clause holds
\* only fragments field [NOT] BETWEEN lo AND hi, field [NOT] IN (list),
\* field IS [NOT] NULL and field op value, parsed and rebuilt from the
\* unmodified condition list, comes back with the same predicates in the same
\* order, whitespace and letter case aside.
RoundTrip ==
    (/\ pc = "rebuilt"
     /\ HasWhere(shape)
     /\ ~TwoWheres(shape)
     /\ KindsOf(shape) \subseteq {"cmp", "in", "null", "between"}
     /\ edited = conds)
      => Squeeze(ResultClause) = Squeeze(Predicates(shape))

\* C2 as it stands: typing and formatting a formatted literal a second time
\* yields the same literal as one pass, for every scalar string.
Idempotent == pc = "twice" => fmt2 = fmt1

\* C2, amended: the second pass yields the same literal exactly when the value
\* is typed number or holds to_date( in any letter case (both pass through
\* unchanged); every date and text value is quoted again by the second pass.
IdempotentOnPassThrough ==
    pc = "twice" =>
        (fmt2 = fmt1 <=> (vtype = "number" \/ FindFromNoCase(val, "to_date(", 1) > 0))

NumberFormattedTwice ==
    /\ pc = "twice"
    /\ vtype = "number"
    /\ fmt1 = val
    /\ fmt2 = fmt1

\* C3 as it stands: on a statement without WHERE and a non-empty condition
\* list, reconstruct_sql_query returns the statement with a WHERE clause
\* appended.
NoWhereAppends ==
    (pc = "rebuilt" /\ ~HasWhere(shape) /\ edited # <<>>)
      => (result # query /\ Contains(result, " WHERE "))

\* C3, amended: on a statement without WHERE, reconstruct_sql_query returns
\* the original statement unchanged, whatever the condition list.
NoWhereUnchanged ==
    (pc \in {"rebuilt", "raised"} /\ ~HasWhere(shape))
      => (pc = "rebuilt" /\ result = query)

NoWhereRebuilt ==
    /\ pc = "rebuilt"
    /\ ~HasWhere(shape)
    /\ edited # <<>>
    /\ \A i \in 1..Len(edited) : edited[i].isdict
    /\ result = query

\* C4: a clause of the single fragment col [NOT] BETWEEN to_date(p1,'f1') AND
\* to_date(p2,'f2') parses to exactly one condition, with operator BETWEEN or
\* NOT BETWEEN as written, type date, is_function, function_name to_date,
\* format f1, original_value [p1, p2] and the two rendered calls as value;
\* rebuilt from that condition alone, the fragment comes back unchanged,
\* whitespace aside.
ToDateIdiom ==
    (/\ pc \in {"parsed", "rebuilt"}
     /\ Len(shape.ix) = 1
     /\ KindsOf(shape) = {"todate"})
      => /\ Len(conds) = 1
         /\ [conds[1] EXCEPT !.operator_desc = ""]
              = ToDateCond(0, FragVocab[shape.ix[1]].field, FragVocab[shape.ix[1]].op,
                           FragVocab[shape.ix[1]].operands[1], FragVocab[shape.ix[1]].operands[2],
                           FragVocab[shape.ix[1]].operands[3], FragVocab[shape.ix[1]].operands[4])
         /\ (pc = "rebuilt" /\ edited = conds /\ ~TwoWheres(shape))
              => NoSpace(ResultClause) = NoSpace(FragVocab[shape.ix[1]].text)

\* the value a fragment's operands are parsed to
ValueOf(f) ==
    CASE f.kind = "null" -> PyNone
      [] f.kind = "cmp" -> PyStr(f.operands[1])
      [] OTHER -> StrList(f.operands)

\* C5: a clause of k fragments joined by AND, each field op value,
\* field [NOT] IN (list) or field IS [NOT] NULL, parses to exactly k
\* conditions in source order, the i-th with the i-th fragment's field and
\* operator, typed by the Value Typer's class of its first unquoted operand,
\* and with type null and value null for the two NULL operators.
MultiAnd ==
    (/\ pc = "parsed"
     /\ HasWhere(shape)
     /\ shape.conn = " AND "
     /\ KindsOf(shape) \subseteq {"cmp", "in", "null"})
      => /\ Len(conds) = Len(shape.ix)
         /\ \A i \in 1..Len(shape.ix) :
                /\ conds[i].field = FragVocab[shape.ix[i]].field
                /\ conds[i].operator = PyStr(FragVocab[shape.ix[i]].op)
                /\ conds[i].type = FragVocab[shape.ix[i]].type
                /\ FragVocab[shape.ix[i]].kind = "null" => conds[i].value = PyNone

NullOps == {"IS NULL", "IS NOT NULL"}
BetweenOps == {"BETWEEN", "NOT BETWEEN"}
InOps == {"IN", "NOT IN"}

\* the values of a condition that go through the Value Formatter
Operands(c) ==
    CASE Upper(c.operator.s) \in NullOps -> <<>>
      [] Upper(c.operator.s) \in BetweenOps -> IF c.is_function THEN <<>> ELSE c.value.items
      [] Upper(c.operator.s) \in InOps -> c.value.items
      [] OTHER -> <<c.value>>

\* a condition the rendering rules speak of: an object with a textual
\* operator, two bounds for BETWEEN, a list for IN, and values the Value
\* Formatter accepts
WellFormed(c) ==
    /\ c.isdict
    /\ c.operator.k = "str"
    /\ Upper(c.operator.s) \in BetweenOps => (c.value.k = "list" /\ Len(c.value.items) = 2)
    /\ Upper(c.operator.s) \in InOps => c.value.k = "list"
    /\ \A i \in 1..Len(Operands(c)) : format_value(Operands(c)[i], c.type).ok

Formatted(c) == [i \in 1..Len(Operands(c)) |-> format_value(Operands(c)[i], c.type).s]

\* the rendering of one condition, rule by rule
Rendering(c) ==
    c.field \o " " \o c.operator.s \o
      (CASE Upper(c.operator.s) \in NullOps -> ""
         [] Upper(c.operator.s) \in BetweenOps /\ c.is_function ->
                " " \o PyText(c.value.items[1]) \o " AND " \o PyText(c.value.items[2])
         [] Upper(c.operator.s) \in BetweenOps /\ ~c.is_function ->
                " " \o Formatted(c)[1] \o " AND " \o Formatted(c)[2]
         [] Upper(c.operator.s) \in InOps -> " (" \o Join(Formatted(c), ", ") \o ")"
         [] OTHER -> " " \o Formatted(c)[1])

\* the text the new clause is put after: the statement up to its last WHERE
BeforeWhere(sh) ==
    IF TwoWheres(sh)
    THEN SelectFrom \o " WHERE " \o ClauseText(sh) \o " UNION SELECT * FROM u"
    ELSE SelectFrom

\* C6: the predicate reconstruct_sql_query puts after WHERE is the " AND "
\* join, in list order, of one rendering per condition: field operator for
\* the NULL operators; field operator value[0] AND value[1] verbatim for
\* BETWEEN with function metadata; both bounds through the Value Formatter
\* for BETWEEN without; the members through the Value Formatter, joined by
\* ", " in parentheses, for IN; field operator formattedValue otherwise.
NewClauseRendered ==
    (/\ pc = "rebuilt"
     /\ HasWhere(shape)
     /\ \A i \in 1..Len(edited) : WellFormed(edited[i]))
      => result = BeforeWhere(shape) \o " WHERE "
                    \o Join([i \in 1..Len(edited) |-> Rendering(edited[i])], " AND ")

BoundsAndMembersRendered ==
    /\ pc = "rebuilt"
    /\ HasWhere(shape)
    /\ Len(edited) = 2
    /\ edited[1].operator = PyStr("NOT BETWEEN")
    /\ edited[2].operator = PyStr("IN")
    /\ result = "SELECT * FROM t WHERE a NOT BETWEEN 1 AND 'x' AND n IN ('x', 'O''Brien')"

\* C7: reconstruct_sql_query is total.  For every statement and every
\* condition list, ill-typed entries included, it returns a string and never
\* raises; when the primary path raises and the fallback path raises too
\* (the statement has a WHERE and the new clause cannot be built, on either
\* path), it returns the original statement unchanged.
ReconstructTotal ==
    /\ pc # "raised"
    /\ pc = "rebuilt" =>
          /\ result \in STRING
          /\ path \in {"nowhere", "primary", "fallback", "original"}
          /\ (HasWhere(shape) /\ ~construct_where_clause(edited).ok)
               => (path = "original" /\ result = query)
          /\ path = "original" => result = query

BothPathsRaised ==
    /\ pc = "rebuilt"
    /\ HasWhere(shape)
    /\ \E i \in 1..Len(edited) : ~edited[i].isdict
    /\ ~PrimaryPath(query, edited).ok
    /\ ~FallbackPath(query, edited).ok
    /\ result = query

IsParseable(f) == f.kind \in {"cmp", "in", "null"}
IsPlain(c) == ~c.is_function

NoWhereIffNoClause ==
    pc = "parsed" => (status = "no_where" <=> ~HasWhere(shape))

\* C10: in every list the parser returns, the condition at position i
\* (counted from 0) has id i, on the generic path when fragments are dropped
\* and on the to_date path after any number of re-runs on the remainder.
ContiguousIds == \A i \in 1..Len(conds) : conds[i].id = i - 1

RemainderRenumbered ==
    /\ pc = "parsed"
    /\ Len(conds) = 2
    /\ conds[1].is_function
    /\ ~conds[2].is_function
    /\ conds[2].id = 1

\* C11: reconstruct_sql_query anchors on the first WHERE.  On a statement
\* with one or more WHERE keywords the primary path returns the text before
\* the first WHERE, then WHERE and the new clause: nothing from the first
\* WHERE onward survives, and the clause replaced is the one parse_sql_query
\* read its conditions from.
AnchorsOnFirstWhere ==
    (pc = "rebuilt" /\ HasWhere(shape) /\ path = "primary")
      => result = SelectFrom \o " WHERE " \o construct_where_clause(edited).s

\* the literal the rules give for a string under a declared type, an empty
\* string of type number or date handled by emptyRule
Literal(s, type, emptyRule(_)) ==
    IF FindFromNoCase(s, "to_date(", 1) > 0 THEN s
    ELSE IF type = "number"
         THEN IF s = "" THEN emptyRule(s)
              ELSE IF IsFloat(s) THEN s ELSE "'" \o s \o "'"
    ELSE IF type = "date"
         THEN IF s = "" THEN emptyRule(s)
              ELSE IF \E i \in 1..Len(s) : Ch(s, i) = "'" THEN s ELSE "'" \o s \o "'"
    ELSE "'" \o Join(Split(s, "'"), "''") \o "'"

EmptyQuoted(s) == "''"
EmptyIsNull(s) == "NULL"

\* C12 as it stands: a null value gives NULL; a value containing to_date( is
\* returned verbatim; type number gives the string unquoted when it parses
\* as a float and quoted when it does not; type date gives the value quoted
\* unless it holds a quote already; any other type gives the value with its
\* quotes doubled, in quotes; the empty string included (it is no float and
\* holds no quote, so it gives '' under every type); format_value never
\* raises.
FormatterRules ==
    /\ pc # "format_raised"
    /\ pc = "formatted" =>
          fmt1 = IF given.k = "none" THEN "NULL" ELSE Literal(given.s, vtype, EmptyQuoted)

\* C12, amended: the same rules, except that the empty string gives NULL
\* under type number and under type date.
FormatterRulesEmptyIsNull ==
    /\ pc # "format_raised"
    /\ pc = "formatted" =>
          fmt1 = IF given.k = "none" THEN "NULL" ELSE Literal(given.s, vtype, EmptyIsNull)

EmptyDateFormatted ==
    /\ pc = "formatted"
    /\ given = PyStr("")
    /\ vtype = "date"
    /\ fmt1 = "NULL"

\* C13: negation is decided by the NOT keyword only.  The Condition Matcher
\* and the to_date path of the Clause Splitter give NOT BETWEEN, NOT IN or
\* IS NOT NULL exactly when NOT stands as a word of its own between the field
\* and BETWEEN, IN or NULL; the letters NOT inside the field name or an
\* operand never change the operator.
NegationByKeyword ==
    /\ pc = "matched" =>
          \A f \in IsolatedFrags :
              f.text = query => (Len(conds) = 1 /\ conds[1].operator = PyStr(f.op))
    /\ (pc = "parsed" /\ Len(shape.ix) = 1 /\ KindsOf(shape) \subseteq {"in", "null", "todate"})
          => (Len(conds) = 1 /\ conds[1].operator = PyStr(FragVocab[shape.ix[1]].op))
====
